---- MODULE Spec2Model ----
(***************************************************************************)
(* Model of the DexScreener snapshot collector: the normalizer, the        *)
(* de-duplicating append to the daily CSV partition (write_rows), the      *)
(* snapshot orchestrators (do_snapshot of the starter package and          *)
(* snapshot_once of scripts/) and the polling loop of main.                *)
(*                                                                         *)
(* Python values are tagged records [tag, val]: None, str, a number (val   *)
(* holds its str() text), list and dict.  A CSV line is the sequence of    *)
(* its field strings; the csv module's quoting round-trips every string,   *)
(* so a line is modelled after parsing.                                    *)
(*                                                                         *)
(* Specifications: Spec (write_rows calls and snapshots in any order),     *)
(* LoopSpec (main), PureSpec (_get_nested, normalize_records and the       *)
(* fetch functions applied to drawn arguments), SnapSpec (snapshots only), *)
(* RaceSpec (two processes inside write_rows) and SideSpec (the write_rows *)
(* of scripts/ beside the starter's).                                      *)
(***************************************************************************)
EXTENDS Integers, Sequences, FiniteSets, TLC

\* ------------------------------------------------------------ bounds
MaxArrived == 2      \* rows handed to write_rows over a whole run
MaxQueries == 1      \* search queries (or pair ids) of one snapshot

\* ------------------------------------------------------------ Python values
None == [tag |-> "none", val |-> ""]
Str(s) == [tag |-> "str", val |-> s]
Num(s) == [tag |-> "num", val |-> s]
List(q) == [tag |-> "list", val |-> q]
Dict(f) == [tag |-> "dict", val |-> f]

\* bool(v): None, "", 0, [] and {} are falsy
Truthy(v) ==
    CASE v.tag = "none" -> FALSE
      [] v.tag = "str" -> v.val # ""
      [] v.tag = "num" -> v.val # "0"
      [] v.tag = "list" -> v.val # <<>>
      [] v.tag = "dict" -> DOMAIN v.val # {}

\* d.get(k): the caller has checked that d is a dict
Get(d, k) == IF k \in DOMAIN d.val THEN d.val[k] ELSE None

\* ------------------------------------------------------------ clock
\* datetime.now(timezone.utc) at the instants the model distinguishes, as
\* isoformat(timespec="seconds") and strftime('%Y-%m-%d') render them.
Instants ==
    << [iso |-> "2024-01-01T23:59:59+00:00", date |-> "2024-01-01"],
       [iso |-> "2024-01-02T00:04:59+00:00", date |-> "2024-01-02"] >>

Nows == 0..(Len(Instants) - 1)
isoformat(n) == Instants[n + 1].iso
strftime(n) == Instants[n + 1].date

\* _daily_csv_path: the partition file is identified by the date in its name
_daily_csv_path(n) == strftime(n)
Paths == {_daily_csv_path(n) : n \in Nows}

\* ------------------------------------------------------------ field extraction
\* path.split("."), for the paths normalize_records uses and a few others
split(path) ==
    CASE path = "" -> <<"">>
      [] path = "pairAddress" -> <<"pairAddress">>
      [] path = "txns.h1" -> <<"txns", "h1">>
      [] path = "baseToken.symbol.name" -> <<"baseToken", "symbol", "name">>
      [] path = "baseToken.symbol" -> <<"baseToken", "symbol">>
      [] path = "baseToken.address" -> <<"baseToken", "address">>
      [] path = "quoteToken.symbol" -> <<"quoteToken", "symbol">>
      [] path = "quoteToken.address" -> <<"quoteToken", "address">>
      [] path = "priceChange.h1" -> <<"priceChange", "h1">>
      [] path = "priceChange.h6" -> <<"priceChange", "h6">>
      [] path = "priceChange.h24" -> <<"priceChange", "h24">>
      [] path = "txns.m5.buys" -> <<"txns", "m5", "buys">>
      [] path = "txns.m5.sells" -> <<"txns", "m5", "sells">>
      [] path = "txns.h1.buys" -> <<"txns", "h1", "buys">>
      [] path = "txns.h1.sells" -> <<"txns", "h1", "sells">>
      [] path = "txns.h6.buys" -> <<"txns", "h6", "buys">>
      [] path = "txns.h6.sells" -> <<"txns", "h6", "sells">>
      [] path = "txns.h24.buys" -> <<"txns", "h24", "buys">>
      [] path = "txns.h24.sells" -> <<"txns", "h24", "sells">>
      [] path = "volume.m5" -> <<"volume", "m5">>
      [] path = "volume.h1" -> <<"volume", "h1">>
      [] path = "volume.h6" -> <<"volume", "h6">>
      [] path = "volume.h24" -> <<"volume", "h24">>
      [] path = "liquidity.base" -> <<"liquidity", "base">>
      [] path = "liquidity.quote" -> <<"liquidity", "quote">>
      [] path = "liquidity.usd" -> <<"liquidity", "usd">>

RECURSIVE WalkKeepsCurrent(_, _, _)
\* (mutation) a value that is no mapping is returned instead of the default
WalkKeepsCurrent(cur, parts, default) ==
    IF parts = <<>> THEN cur
    ELSE IF cur.tag # "dict" THEN cur
    ELSE IF Head(parts) \notin DOMAIN cur.val THEN default
    ELSE WalkKeepsCurrent(cur.val[Head(parts)], Tail(parts), default)

RECURSIVE Walk(_, _, _)
\* the loop of _get_nested over the remaining path segments
Walk(cur, parts, default) ==
    IF parts = <<>> THEN cur
    ELSE IF cur.tag # "dict" \/ Head(parts) \notin DOMAIN cur.val THEN default
    ELSE Walk(cur.val[Head(parts)], Tail(parts), default)

_get_nested(d, path) == Walk(d, split(path), None)

\* ------------------------------------------------------------ normalizer
fieldnames ==
    << "snapshot_ts", "pairAddress", "chainId", "dexId", "url",
       "baseToken_symbol", "baseToken_address", "quoteToken_symbol", "quoteToken_address",
       "priceNative", "priceUsd",
       "priceChange_h1", "priceChange_h6", "priceChange_h24",
       "txns_m5_buys", "txns_m5_sells", "txns_h1_buys", "txns_h1_sells",
       "txns_h6_buys", "txns_h6_sells", "txns_h24_buys", "txns_h24_sells",
       "volume_m5", "volume_h1", "volume_h6", "volume_h24",
       "liquidity_base", "liquidity_quote", "liquidity_usd",
       "pairCreatedAt" >>

\* the rec literal built for one pair p
NormalizeOne(p, snapshot_ts) ==
    [ snapshot_ts |-> Str(snapshot_ts),
      pairAddress |-> Get(p, "pairAddress"),
      chainId |-> Get(p, "chainId"),
      dexId |-> Get(p, "dexId"),
      url |-> Get(p, "url"),
      baseToken_symbol |-> _get_nested(p, "baseToken.symbol"),
      baseToken_address |-> _get_nested(p, "baseToken.address"),
      quoteToken_symbol |-> _get_nested(p, "quoteToken.symbol"),
      quoteToken_address |-> _get_nested(p, "quoteToken.address"),
      priceNative |-> Get(p, "priceNative"),
      priceUsd |-> Get(p, "priceUsd"),
      priceChange_h1 |-> _get_nested(p, "priceChange.h1"),
      priceChange_h6 |-> _get_nested(p, "priceChange.h6"),
      priceChange_h24 |-> _get_nested(p, "priceChange.h24"),
      txns_m5_buys |-> _get_nested(p, "txns.m5.buys"),
      txns_m5_sells |-> _get_nested(p, "txns.m5.sells"),
      txns_h1_buys |-> _get_nested(p, "txns.h1.buys"),
      txns_h1_sells |-> _get_nested(p, "txns.h1.sells"),
      txns_h6_buys |-> _get_nested(p, "txns.h6.buys"),
      txns_h6_sells |-> _get_nested(p, "txns.h6.sells"),
      txns_h24_buys |-> _get_nested(p, "txns.h24.buys"),
      txns_h24_sells |-> _get_nested(p, "txns.h24.sells"),
      volume_m5 |-> _get_nested(p, "volume.m5"),
      volume_h1 |-> _get_nested(p, "volume.h1"),
      volume_h6 |-> _get_nested(p, "volume.h6"),
      volume_h24 |-> _get_nested(p, "volume.h24"),
      liquidity_base |-> _get_nested(p, "liquidity.base"),
      liquidity_quote |-> _get_nested(p, "liquidity.quote"),
      liquidity_usd |-> _get_nested(p, "liquidity.usd"),
      pairCreatedAt |-> Get(p, "pairCreatedAt") ]

\* (mutation) pairs without a pairAddress are skipped
normalize_records_skip(pairs, snapshot_ts) ==
    LET kept == SelectSeq(pairs, LAMBDA p : "pairAddress" \in DOMAIN p.val)
    IN  [i \in 1..Len(kept) |-> NormalizeOne(kept[i], snapshot_ts)]

\* normalize_records of the starter: one row per pair, in input order
normalize_records(pairs, snapshot_ts) ==
    [i \in 1..Len(pairs) |-> NormalizeOne(pairs[i], snapshot_ts)]

\* ------------------------------------------------------------ raw pair records
\* the spec's concrete scenario record
RecA ==
    Dict([ pairAddress |-> Str("P1"), chainId |-> Str("solana"), dexId |-> Str("raydium"),
           baseToken |-> Dict([symbol |-> Str("FOO")]),
           quoteToken |-> Dict([symbol |-> Str("USDC")]),
           priceUsd |-> Str("1.23"),
           liquidity |-> Dict([usd |-> Num("5000")]),
           txns |-> Dict([h1 |-> Dict([buys |-> Num("10"), sells |-> Num("4")])]) ])
\* the same pair with other field values, a nested field that is no mapping
RecB == Dict([pairAddress |-> Str("P1"), priceUsd |-> Str("4.56"), liquidity |-> Str("n/a")])
\* another pair, a nested field that is null
RecC == Dict([pairAddress |-> Str("P2"), chainId |-> Str("solana"), baseToken |-> None])
\* a record without pairAddress
RecD == Dict([chainId |-> Str("solana")])

\* the records a direct caller of normalize_records and write_rows holds
\* (RecC reaches write_rows through the fetch, in BodyAC)
RawPool == <<RecA, RecB, RecD>>

\* ------------------------------------------------------------ CSV encoding
\* csv.writer renders None as the empty string and everything else with str()
csv_field(v) == IF v.tag = "none" THEN "" ELSE v.val

\* DictWriter.writerow: the row's values in fieldnames order
csv_line(row) == [i \in 1..Len(fieldnames) |-> csv_field(row[fieldnames[i]])]

\* DictWriter.writeheader
header_line == fieldnames

\* row.get(name) of a csv.DictReader row: the field under the header's column
\* of that name, always a str; None when the header has no such column
reader_get(header, line, name) ==
    IF \E i \in 1..Len(header) : header[i] = name /\ i <= Len(line)
    THEN Str(line[CHOOSE i \in 1..Len(header) : header[i] = name /\ i <= Len(line)])
    ELSE None

\* ------------------------------------------------------------ table store
NoFile == [exists |-> FALSE, lines |-> <<>>]

\* the dedup key of an in-memory row
row_key(r) == <<r.pairAddress, r.snapshot_ts>>

\* the dedup key DictReader yields for data line i of a file
line_key(lines, i) ==
    <<reader_get(lines[1], lines[i], "pairAddress"),
      reader_get(lines[1], lines[i], "snapshot_ts")>>

read_existing_keys(fs, csv_path) ==
    IF ~fs[csv_path].exists THEN {}
    ELSE {line_key(fs[csv_path].lines, i) : i \in 2..Len(fs[csv_path].lines)}

RECURSIVE DedupLoopNoAdd(_, _, _)
\* (mutation) the loop without existing.add(key)
DedupLoopNoAdd(rs, existing, deduped) ==
    IF rs = <<>> THEN deduped
    ELSE IF row_key(Head(rs)) \notin existing
         THEN DedupLoopNoAdd(Tail(rs), existing, Append(deduped, Head(rs)))
         ELSE DedupLoopNoAdd(Tail(rs), existing, deduped)

RECURSIVE DedupLoop(_, _, _)
\* for r in rows: keep r when its key is not in existing, and add the key
DedupLoop(rs, existing, deduped) ==
    IF rs = <<>> THEN deduped
    ELSE IF row_key(Head(rs)) \notin existing
         THEN DedupLoop(Tail(rs), existing \cup {row_key(Head(rs))}, Append(deduped, Head(rs)))
         ELSE DedupLoop(Tail(rs), existing, deduped)

\* (mutation) the header is written on every append
AppendedAlwaysHeader(file_exists, old, deduped) ==
    old \o <<header_line>> \o [i \in 1..Len(deduped) |-> csv_line(deduped[i])]

\* (mutation) the file is opened with mode "w"
AppendedTruncate(file_exists, old, deduped) ==
    (IF file_exists THEN <<>> ELSE <<header_line>>)
        \o [i \in 1..Len(deduped) |-> csv_line(deduped[i])]

\* open(csv_path, "a"): the header when the file did not exist, then the rows
Appended(file_exists, old, deduped) ==
    old \o (IF file_exists THEN <<>> ELSE <<header_line>>)
        \o [i \in 1..Len(deduped) |-> csv_line(deduped[i])]

\* (mutation) the call reports the size of its input
WrittenCountInput(rs, deduped) == Len(rs)

\* return len(deduped)
WrittenCount(rs, deduped) == Len(deduped)

\* (mutation) the file is opened, and given its header, before the tests
\* "if not rows" and "if not deduped"
write_rows_opens_first(fs, dir, csv_path, rs) ==
    LET file_exists == fs[csv_path].exists
        existing == read_existing_keys(fs, csv_path)
        deduped == DedupLoop(rs, existing, <<>>)
    IN  IF ~dir
        THEN [files |-> fs, ret |-> -1, raised |-> TRUE, deduped |-> <<>>]
        ELSE [files |-> [fs EXCEPT ![csv_path] =
                            [exists |-> TRUE,
                             lines |-> Appended(file_exists, fs[csv_path].lines, deduped)]],
              ret |-> WrittenCount(rs, deduped),
              raised |-> FALSE,
              deduped |-> deduped]

\* write_rows of the starter.  The result: the file system after the call,
\* the value returned, whether an exception escaped (open() of a file in a
\* directory that does not exist), and the rows appended.
write_rows(fs, dir, csv_path, rs) ==
    IF rs = <<>> THEN [files |-> fs, ret |-> 0, raised |-> FALSE, deduped |-> <<>>]
    ELSE
      LET file_exists == fs[csv_path].exists
          existing == read_existing_keys(fs, csv_path)
          deduped == DedupLoop(rs, existing, <<>>)
      IN  IF deduped = <<>>
          THEN [files |-> fs, ret |-> 0, raised |-> FALSE, deduped |-> <<>>]
          ELSE IF ~dir
          THEN [files |-> fs, ret |-> -1, raised |-> TRUE, deduped |-> <<>>]
          ELSE [files |-> [fs EXCEPT ![csv_path] =
                              [exists |-> TRUE,
                               lines |-> Appended(file_exists, fs[csv_path].lines, deduped)]],
                ret |-> WrittenCount(rs, deduped),
                raised |-> FALSE,
                deduped |-> deduped]

\* ------------------------------------------------------------ fetch
\* One HTTP exchange of http_get_json: the parsed JSON body, or the exception
\* it raises (raise_for_status: HTTPError; requests.get: RequestException;
\* anything else: Exception).
Ok(body) == [kind |-> "ok", body |-> body]
Fails(kind) == [kind |-> kind, body |-> None]

BodyAC == Dict([pairs |-> List(<<RecA, RecC>>)])
BodyBD == Dict([pairs |-> List(<<RecB, RecD>>)])
BodyNull == Dict([pairs |-> None])
BodyNoPairs == Dict([schemaVersion |-> Str("1.0.0")])
BodyNotMapping == List(<<>>)

ResponsePool ==
    { Ok(BodyAC), Ok(BodyBD), Ok(BodyNull), Ok(BodyNoPairs), Ok(BodyNotMapping),
      Fails("HTTPError"), Fails("RequestException"), Fails("Exception") }

\* data.get("pairs", []) or []  followed by iteration: the items, or the
\* exception raised (AttributeError on a non-mapping, TypeError or
\* AttributeError on a truthy value that is no list of mappings)
PairsOf(data) ==
    IF data.tag # "dict" THEN [exc |-> "Exception", items |-> <<>>]
    ELSE LET v == IF "pairs" \in DOMAIN data.val THEN data.val["pairs"] ELSE List(<<>>)
         IN  IF ~Truthy(v) THEN [exc |-> "", items |-> <<>>]
             ELSE IF v.tag = "list" THEN [exc |-> "", items |-> v.val]
             ELSE [exc |-> "Exception", items |-> <<>>]

RECURSIVE MergeLoopNoSeen(_, _, _)
\* (mutation) the test "pid not in seen" is missing
MergeLoopNoSeen(items, seen, merged) ==
    IF items = <<>> THEN [exc |-> "", seen |-> seen, merged |-> merged]
    ELSE LET p == Head(items)
         IN  IF p.tag # "dict" THEN [exc |-> "Exception", seen |-> seen, merged |-> merged]
             ELSE LET pid == Get(p, "pairAddress")
                  IN  IF ~Truthy(pid) THEN MergeLoopNoSeen(Tail(items), seen, merged)
                      ELSE MergeLoopNoSeen(Tail(items), seen \cup {pid}, Append(merged, p))

RECURSIVE MergeLoop(_, _, _)
\* for p in ...: pid = p.get("pairAddress"); if pid and pid not in seen: ...
MergeLoop(items, seen, merged) ==
    IF items = <<>> THEN [exc |-> "", seen |-> seen, merged |-> merged]
    ELSE LET p == Head(items)
         IN  IF p.tag # "dict" THEN [exc |-> "Exception", seen |-> seen, merged |-> merged]
             ELSE LET pid == Get(p, "pairAddress")
                  IN  IF ~Truthy(pid) THEN MergeLoop(Tail(items), seen, merged)
                      ELSE IF pid.tag \in {"list", "dict"}
                      THEN [exc |-> "Exception", seen |-> seen, merged |-> merged]
                      ELSE IF pid \notin seen
                      THEN MergeLoop(Tail(items), seen \cup {pid}, Append(merged, p))
                      ELSE MergeLoop(Tail(items), seen, merged)

RECURSIVE SearchLoop(_, _, _)
\* for q in queries: one exchange per non-blank query
SearchLoop(responses, seen, merged) ==
    IF responses = <<>> THEN [exc |-> "", pairs |-> merged]
    ELSE IF Head(responses).kind # "ok" THEN [exc |-> Head(responses).kind, pairs |-> <<>>]
    ELSE LET po == PairsOf(Head(responses).body)
             m == MergeLoop(po.items, seen, merged)
         IN  IF po.exc # "" THEN [exc |-> po.exc, pairs |-> <<>>]
             ELSE IF m.exc # "" THEN [exc |-> m.exc, pairs |-> <<>>]
             ELSE SearchLoop(Tail(responses), m.seen, m.merged)

fetch_pairs_by_search_queries(responses) == SearchLoop(responses, {}, <<>>)

RECURSIVE ExtendLoop(_, _)
\* for pid in ...: out.extend(data.get("pairs", []) or [])
ExtendLoop(responses, out) ==
    IF responses = <<>> THEN [exc |-> "", pairs |-> out]
    ELSE IF Head(responses).kind # "ok" THEN [exc |-> Head(responses).kind, pairs |-> <<>>]
    ELSE LET po == PairsOf(Head(responses).body)
         IN  IF po.exc # "" THEN [exc |-> po.exc, pairs |-> <<>>]
             ELSE ExtendLoop(Tail(responses), out \o po.items)

fetch_pairs_by_ids(responses) ==
    LET out == ExtendLoop(responses, <<>>)
        m == MergeLoop(out.pairs, {}, <<>>)
    IN  IF out.exc # "" THEN out
        ELSE IF m.exc # "" THEN [exc |-> m.exc, pairs |-> <<>>]
        ELSE [exc |-> "", pairs |-> m.merged]

\* ------------------------------------------------------------ orchestration
\* a line printed by a snapshot: [ERROR] ... on stderr, [OK] ... on stdout
ErrorLine(exc) ==
    [stream |-> "stderr", tag |-> "ERROR", what |-> exc, ts |-> "", wrote |-> -1, path |-> ""]
OkLine(snapshot_ts, added, csv_path) ==
    [stream |-> "stdout", tag |-> "OK", what |-> "", ts |-> snapshot_ts, wrote |-> added,
     path |-> csv_path]

\* the line breaks inside the text of a field
LineBreaks(s) == IF s = "FOO\nBAR" THEN 1 ELSE 0

\* sum(1 for _ in f): the lines of the file as text, a quoted field with a
\* line break taking one more
PhysicalLines(lines) ==
    LET InLine(line) ==
            LET G[j \in 0..Len(line)] ==
                    IF j = 0 THEN 1 ELSE G[j - 1] + LineBreaks(line[j])
            IN  G[Len(line)]
        F[i \in 0..Len(lines)] == IF i = 0 THEN 0 ELSE F[i - 1] + InLine(lines[i])
    IN  F[Len(lines)]

\* data lines of a file as the orchestrators count them: max(lines - 1, 0)
CountData(f) ==
    IF f.exists /\ PhysicalLines(f.lines) > 1 THEN PhysicalLines(f.lines) - 1 ELSE 0

\* (mutation) the exception of a failed fetch is not caught
FetchFailedRaises(fs, dir, exc) ==
    [files |-> fs, dirExists |-> dir, ret |-> -1, raised |-> TRUE, exc |-> exc,
     rows |-> <<>>, called |-> FALSE, printed |-> <<>>, deduped |-> <<>>]

\* (mutation) ensure_dir(outdir) runs before the fetch
FetchFailedMakesDir(fs, dir, exc) ==
    [files |-> fs, dirExists |-> TRUE, ret |-> 0, raised |-> FALSE, exc |-> exc,
     rows |-> <<>>, called |-> FALSE, printed |-> <<ErrorLine(exc)>>, deduped |-> <<>>]

\* the three except clauses: one line on stderr, return 0
FetchFailed(fs, dir, exc) ==
    [files |-> fs, dirExists |-> dir, ret |-> 0, raised |-> FALSE, exc |-> exc,
     rows |-> <<>>, called |-> FALSE, printed |-> <<ErrorLine(exc)>>, deduped |-> <<>>]

\* (mutation) the partition path is taken from a second reading of the clock
do_snapshot_second_now(fs, dir, n, pair_ids, responses) ==
    LET snapshot_ts == isoformat(n)
        fetched == IF pair_ids THEN fetch_pairs_by_ids(responses)
                   ELSE fetch_pairs_by_search_queries(responses)
        rs == normalize_records(fetched.pairs, snapshot_ts)
        csv_path == _daily_csv_path(IF n + 1 \in Nows THEN n + 1 ELSE n)
        w == write_rows(fs, TRUE, csv_path, rs)
    IN  IF fetched.exc # "" THEN FetchFailed(fs, dir, fetched.exc)
        ELSE [files |-> w.files, dirExists |-> TRUE, ret |-> w.ret, raised |-> w.raised,
              exc |-> "", rows |-> rs, called |-> TRUE,
              printed |-> <<OkLine(snapshot_ts, w.ret, csv_path)>>, deduped |-> w.deduped]

\* do_snapshot of the starter at instant n; pair_ids selects exact-pairs mode
do_snapshot(fs, dir, n, pair_ids, responses) ==
    LET snapshot_ts == isoformat(n)
        fetched == IF pair_ids THEN fetch_pairs_by_ids(responses)
                   ELSE fetch_pairs_by_search_queries(responses)
        rs == normalize_records(fetched.pairs, snapshot_ts)
        csv_path == _daily_csv_path(n)
        w == write_rows(fs, TRUE, csv_path, rs)
    IN  IF fetched.exc # "" THEN FetchFailed(fs, dir, fetched.exc)
        ELSE [files |-> w.files, dirExists |-> TRUE, ret |-> w.ret, raised |-> w.raised,
              exc |-> "", rows |-> rs, called |-> TRUE,
              printed |-> <<OkLine(snapshot_ts, w.ret, csv_path)>>, deduped |-> w.deduped]

\* ------------------------------------------------------------ scripts/ variant
\* read_existing_rows_indexed: a first pass that reads the header and skips
\* the lines, then the DictReader pass
read_existing_rows_indexed(fs, csv_path) ==
    IF ~fs[csv_path].exists THEN {}
    ELSE IF fs[csv_path].lines = <<>> THEN {}
    ELSE {line_key(fs[csv_path].lines, i) : i \in 2..Len(fs[csv_path].lines)}

RECURSIVE ScriptsDedupLoop(_, _, _)
ScriptsDedupLoop(rs, existing_keys, deduped) ==
    IF rs = <<>> THEN deduped
    ELSE IF row_key(Head(rs)) \notin existing_keys
         THEN ScriptsDedupLoop(Tail(rs), existing_keys \cup {row_key(Head(rs))},
                               Append(deduped, Head(rs)))
         ELSE ScriptsDedupLoop(Tail(rs), existing_keys, deduped)

\* write_rows of scripts/: returns None (ret is -1 throughout)
scripts_write_rows(fs, dir, csv_path, rs) ==
    IF rs = <<>> THEN [files |-> fs, ret |-> -1, raised |-> FALSE, deduped |-> <<>>]
    ELSE
      LET file_exists == fs[csv_path].exists
          existing_keys == read_existing_rows_indexed(fs, csv_path)
          deduped == ScriptsDedupLoop(rs, existing_keys, <<>>)
      IN  IF deduped = <<>>
          THEN [files |-> fs, ret |-> -1, raised |-> FALSE, deduped |-> <<>>]
          ELSE IF ~dir THEN [files |-> fs, ret |-> -1, raised |-> TRUE, deduped |-> <<>>]
          ELSE [files |-> [fs EXCEPT ![csv_path] =
                              [exists |-> TRUE,
                               lines |-> fs[csv_path].lines
                                         \o (IF file_exists THEN <<>> ELSE <<header_line>>)
                                         \o [i \in 1..Len(deduped) |-> csv_line(deduped[i])]]],
                ret |-> -1,
                raised |-> FALSE,
                deduped |-> deduped]

\* (mutation) the count is the number of rows handed to write_rows
counted_write_input(fs, csv_path, rs) ==
    [files |-> scripts_write_rows(fs, TRUE, csv_path, rs).files, added |-> Len(rs)]

\* snapshot_once from pre_count to added, around write_rows(csv_path, rows)
counted_write(fs, csv_path, rs) ==
    LET pre_count == CountData(fs[csv_path])
        w == scripts_write_rows(fs, TRUE, csv_path, rs)
        post_count == CountData(w.files[csv_path])
    IN  [files |-> w.files,
         added |-> IF post_count - pre_count > 0 THEN post_count - pre_count ELSE 0]

\* normalize_records of scripts/: raw is the whole response; raw.get raises
\* AttributeError when raw is no mapping, p.get when a pair is none
scripts_normalize_records(raw, snapshot_ts) ==
    LET po == PairsOf(raw)
    IN  IF po.exc # "" THEN [exc |-> po.exc, rows |-> <<>>]
        ELSE IF \E i \in 1..Len(po.items) : po.items[i].tag # "dict"
        THEN [exc |-> "Exception", rows |-> <<>>]
        ELSE [exc |-> "", rows |-> normalize_records(po.items, snapshot_ts)]

\* snapshot_once of scripts/ at instant n, with the one response of
\* fetch_solana_pairs
snapshot_once(fs, dir, n, response) ==
    LET snapshot_ts == isoformat(n)
        norm == scripts_normalize_records(response.body, snapshot_ts)
        csv_path == _daily_csv_path(n)
        pre_count == CountData(fs[csv_path])
        w == scripts_write_rows(fs, TRUE, csv_path, norm.rows)
        post_count == CountData(w.files[csv_path])
        added == IF post_count - pre_count > 0 THEN post_count - pre_count ELSE 0
    IN  IF response.kind # "ok" THEN FetchFailed(fs, dir, response.kind)
        ELSE IF norm.exc # ""
        THEN [files |-> fs, dirExists |-> dir, ret |-> -1, raised |-> TRUE, exc |-> "",
              rows |-> <<>>, called |-> FALSE, printed |-> <<>>, deduped |-> <<>>]
        ELSE [files |-> w.files, dirExists |-> TRUE, ret |-> added, raised |-> w.raised,
              exc |-> "", rows |-> norm.rows, called |-> TRUE,
              printed |-> <<OkLine(snapshot_ts, added, csv_path)>>, deduped |-> w.deduped]

\* a response that parses but lacks the expected top-level structure
LacksStructure(data) ==
    \/ data.tag # "dict"
    \/ "pairs" \notin DOMAIN data.val
    \/ data.val["pairs"].tag = "none"

\* every exchange of a snapshot answered, and each with such a response
DataError(responses) ==
    /\ responses # <<>>
    /\ \A i \in 1..Len(responses) :
        responses[i].kind = "ok" /\ LacksStructure(responses[i].body)

\* ------------------------------------------------------------ state
DEFAULT_INTERVAL == 0
Intervals == {DEFAULT_INTERVAL, 300}

VARIABLES
    files,      \* partition path -> [exists, lines]: the CSV files under outdir
    dirExists,  \* whether outdir exists
    now,        \* the clock: index of the current instant
    op,         \* the last operation run
    path,       \* the partition file it addressed
    rows,       \* the rows it handed to write_rows
    ret,        \* the value it returned (-1: none)
    raised,     \* whether an exception escaped it
    exc,        \* the exception its fetch raised ("" when none)
    dataErr,    \* whether its responses were all data errors
    printed,    \* the lines it printed
    files0,     \* files as the last operation found them
    dir0,       \* dirExists as the last operation found it
    arrived,    \* partition path -> every row handed to write_rows for it, in order
    at,         \* the instant the last operation captured
    appended,   \* partition path -> every row write_rows appended to it, in order
    pc,         \* main: position in the polling loop
    interval,   \* main: args.interval
    arg,        \* a function applied on its own: the function and its arguments
    out,        \* ... and what it returned
    wpc,        \* concurrent writers: writer -> its position in write_rows
    wexists,    \* writer -> its local file_exists
    wdeduped,   \* writer -> its local deduped
    sfiles,     \* the files scripts/ write_rows is given, side by side with files
    scount      \* the count scripts/ snapshot_once reports for its last write

vars == <<files, dirExists, now, op, path, rows, ret, raised, exc, dataErr, printed,
          files0, dir0, arrived, at, appended, pc, interval,
          arg, out, wpc, wexists, wdeduped, sfiles, scount>>

\* the variables the snapshots, the direct write_rows calls and main leave alone
aux == <<arg, out, wpc, wexists, wdeduped, sfiles, scount>>

\* the writer processes a partition file can have
Writers == {1, 2}

RECURSIVE SumLen(_, _)
SumLen(f, S) ==
    IF S = {} THEN 0
    ELSE LET x == CHOOSE y \in S : TRUE IN Len(f[x]) + SumLen(f, S \ {x})

\* rows handed to write_rows so far, and rows the run can still hand to it
TotalArrived == SumLen(arrived, Paths)
Budget == MaxArrived - TotalArrived

\* normalized rows a caller can hold at instant n
RowPool(n) ==
    {NormalizeOne(RawPool[i], isoformat(m)) : i \in 1..Len(RawPool), m \in 0..n}

SeqsUpTo(S, k) == UNION {[1..j -> S] : j \in 0..k}

InitStore ==
    /\ files = [p \in Paths |-> NoFile]
    /\ dirExists \in BOOLEAN
    /\ now = 0
    /\ op = "init"
    /\ path = ""
    /\ rows = <<>>
    /\ ret = -1
    /\ raised = FALSE
    /\ exc = ""
    /\ dataErr = FALSE
    /\ printed = <<>>
    /\ files0 = files
    /\ dir0 = dirExists
    /\ arrived = [p \in Paths |-> <<>>]
    /\ at = 0
    /\ appended = [p \in Paths |-> <<>>]

\* no function applied on its own
InitPure ==
    /\ arg = [fn |-> ""]
    /\ out = [fn |-> ""]

\* no writer inside write_rows
InitWriters ==
    /\ wpc = [w \in Writers |-> "idle"]
    /\ wexists = [w \in Writers |-> FALSE]
    /\ wdeduped = [w \in Writers |-> <<>>]

\* nothing written side by side
InitSide ==
    /\ sfiles = [p \in Paths |-> NoFile]
    /\ scount = -1

Init ==
    /\ InitStore
    /\ pc = "idle"
    /\ interval = DEFAULT_INTERVAL
    /\ InitPure
    /\ InitWriters
    /\ InitSide

\* the clock advances
Tick ==
    /\ now + 1 \in Nows
    /\ now' = now + 1
    /\ UNCHANGED <<files, dirExists, op, path, rows, ret, raised, exc, dataErr, printed,
                   files0, dir0, arrived, at, appended, pc, interval>>
    /\ UNCHANGED aux

\* a caller runs write_rows on the day's partition with rows it holds
WriteRowsCall ==
    \E rs \in SeqsUpTo(RowPool(now), Budget) :
        LET csv_path == _daily_csv_path(now)
            w == write_rows(files, dirExists, csv_path, rs)
        IN  /\ files' = w.files
            /\ op' = "write_rows"
            /\ path' = csv_path
            /\ rows' = rs
            /\ ret' = w.ret
            /\ raised' = w.raised
            /\ exc' = ""
            /\ dataErr' = FALSE
            /\ printed' = <<>>
            /\ files0' = files
            /\ dir0' = dirExists
            /\ arrived' = IF w.raised THEN arrived
                          ELSE [arrived EXCEPT ![csv_path] = @ \o rs]
            /\ at' = now
            /\ appended' = [appended EXCEPT ![csv_path] = @ \o w.deduped]
            /\ UNCHANGED <<dirExists, now, pc, interval>>
            /\ UNCHANGED aux

\* the effect on the state of one orchestrator run with result s
Ran(name, responses, s) ==
    /\ Len(s.rows) <= Budget
    /\ files' = s.files
    /\ dirExists' = s.dirExists
    /\ op' = name
    /\ path' = _daily_csv_path(now)
    /\ rows' = s.rows
    /\ ret' = s.ret
    /\ raised' = s.raised
    /\ exc' = s.exc
    /\ dataErr' = DataError(responses)
    /\ printed' = s.printed
    /\ files0' = files
    /\ dir0' = dirExists
    /\ arrived' = IF s.called /\ ~s.raised
                  THEN [arrived EXCEPT ![_daily_csv_path(now)] = @ \o s.rows]
                  ELSE arrived
    /\ at' = now
    /\ appended' = [appended EXCEPT ![_daily_csv_path(now)] = @ \o s.deduped]
    /\ UNCHANGED aux

\* an exchange after which the fetch goes no further: it raised, or its
\* body made the fetch raise
EndsFetch(response) == response.kind # "ok" \/ PairsOf(response.body).exc # ""

\* the exchanges of one fetch over at most k queries (or pair ids): none
\* follows one that ended the fetch
Exchanges(k) ==
    {q \in SeqsUpTo(ResponsePool, k) : \A i \in 1..(Len(q) - 1) : ~EndsFetch(q[i])}

\* one run of the starter's do_snapshot
DoSnapshot ==
    \E pair_ids \in BOOLEAN, responses \in Exchanges(MaxQueries) :
        /\ Ran("do_snapshot", responses,
               do_snapshot(files, dirExists, now, pair_ids, responses))
        /\ UNCHANGED <<now, pc, interval>>

\* one run of scripts/ snapshot_once
SnapshotOnce ==
    \E response \in ResponsePool :
        /\ Ran("snapshot_once", <<response>>,
               snapshot_once(files, dirExists, now, response))
        /\ UNCHANGED <<now, pc, interval>>

Next == Tick \/ WriteRowsCall \/ DoSnapshot \/ SnapshotOnce

Spec == Init /\ [][Next]_vars

\* ------------------------------------------------------------ main, looping
LoopInit ==
    /\ InitStore
    /\ pc = "main"
    /\ interval \in Intervals
    /\ InitPure
    /\ InitWriters
    /\ InitSide

\* if args.interval <= 0: do_snapshot(...); return
MainOnce ==
    /\ pc = "main"
    /\ interval <= 0
    /\ \E pair_ids \in BOOLEAN, responses \in Exchanges(MaxQueries) :
        Ran("do_snapshot", responses,
            do_snapshot(files, dirExists, now, pair_ids, responses))
    /\ pc' = "exit"
    /\ UNCHANGED <<now, interval>>

\* print("[START] ..."), entering while True
LoopStart ==
    /\ pc = "main"
    /\ interval > 0
    /\ pc' = "call"
    /\ UNCHANGED <<files, dirExists, now, op, path, rows, ret, raised, exc, dataErr,
                   printed, files0, dir0, arrived, at, appended, interval>>
    /\ UNCHANGED aux

\* do_snapshot(...) in the loop; an exception escaping it leaves the loop
LoopSnapshot ==
    /\ pc = "call"
    /\ \E pair_ids \in BOOLEAN, responses \in Exchanges(MaxQueries) :
        LET s == do_snapshot(files, dirExists, now, pair_ids, responses)
        IN  /\ Ran("do_snapshot", responses, s)
            /\ pc' = IF s.raised THEN "crashed" ELSE "sleep"
    /\ UNCHANGED <<now, interval>>

\* time.sleep(args.interval): the next snapshot reads a later instant (the
\* clock stays at the last instant the model distinguishes)
LoopSleep ==
    /\ pc = "sleep"
    /\ pc' = "call"
    /\ now' = IF now + 1 \in Nows THEN now + 1 ELSE now
    /\ UNCHANGED <<files, dirExists, op, path, rows, ret, raised, exc, dataErr,
                   printed, files0, dir0, arrived, at, appended, interval>>
    /\ UNCHANGED aux

\* except KeyboardInterrupt: print("[STOP] ...")
Interrupt ==
    /\ pc \in {"call", "sleep"}
    /\ pc' = "stopped"
    /\ UNCHANGED <<files, dirExists, now, op, path, rows, ret, raised, exc, dataErr,
                   printed, files0, dir0, arrived, at, appended, interval>>
    /\ UNCHANGED aux

LoopNext == MainOnce \/ LoopStart \/ LoopSnapshot \/ LoopSleep \/ Interrupt

\* the loop is sequential code: each of its steps is eventually taken; the
\* user's interrupt is not
LoopSpec ==
    /\ LoopInit
    /\ [][LoopNext]_vars
    /\ WF_vars(MainOnce)
    /\ WF_vars(LoopStart)
    /\ WF_vars(LoopSnapshot)
    /\ WF_vars(LoopSleep)

\* ------------------------------------------------------------ functions on their own
MaxPairs == 2        \* records in one list handed to normalize_records

\* a key a raw record does not have
Absent == [tag |-> "absent", val |-> ""]

\* what upstream may hold under four of a pair's keys: nothing, null, a
\* scalar, a mapping with or without the inner key
Choices ==
    [ pairAddress : {Absent, None, Str("P1")},
      baseToken : {Absent, None, Str("FOO"), Dict([symbol |-> Str("FOO")]),
                   Dict([address |-> Str("B1")])},
      txns : {Absent, Dict([h1 |-> Dict([buys |-> Num("10"), sells |-> Num("4")])]),
              Dict([h1 |-> Num("3")]), Dict([h1 |-> None])},
      liquidity : {Absent, Dict([usd |-> Num("5000")]), Dict([base |-> None]), List(<<>>)} ]

\* the raw pair record holding the keys of c that are not absent
Build(c) == Dict([k \in {k2 \in DOMAIN c : c[k2].tag # "absent"} |-> c[k]])

RecordSpace == {Build(c) : c \in Choices}

\* JSON values that are no mapping
NonMappings == {None, Str("FOO"), List(<<>>)}

GetPaths ==
    {"", "pairAddress", "baseToken.symbol", "baseToken.symbol.name", "txns.h1",
     "txns.h1.buys", "liquidity.usd", "priceChange.h24"}

\* a response whose pairs repeat an address and hold an empty and a null one
RecEmpty == Dict([pairAddress |-> Str(""), chainId |-> Str("solana")])
RecNull == Dict([pairAddress |-> None, chainId |-> Str("solana")])
BodyMixed == Dict([pairs |-> List(<<RecB, RecEmpty, RecA, RecNull, RecC>>)])

\* the exchanges of one fetch over at most k queries, these responses included
FetchExchanges(k) ==
    {q \in SeqsUpTo(ResponsePool \cup {Ok(BodyMixed)}, k) :
        \A i \in 1..(Len(q) - 1) : ~EndsFetch(q[i])}

NormalizeInputs ==
    {[fn |-> "normalize_records", pairs |-> <<r>>, snapshot_ts |-> isoformat(0)] :
        r \in RecordSpace}
    \cup {[fn |-> "normalize_records", pairs |-> q, snapshot_ts |-> isoformat(n)] :
            q \in SeqsUpTo({RecA, RecB, RecC, RecD, None}, MaxPairs), n \in Nows}

GetNestedInputs ==
    [fn : {"_get_nested"}, d : RecordSpace \cup NonMappings, path : GetPaths,
     default : {None, Str("n/a")}]

FetchInputs ==
    [fn : {"fetch"}, pair_ids : BOOLEAN, responses : FetchExchanges(MaxQueries + 1)]

\* a call of normalize_records: p.get raises AttributeError on a pair that
\* is no mapping
NormalizeOutcome(pairs, snapshot_ts) ==
    IF \E i \in 1..Len(pairs) : pairs[i].tag # "dict"
    THEN [fn |-> "normalize_records", raised |-> TRUE, rows |-> <<>>]
    ELSE [fn |-> "normalize_records", raised |-> FALSE,
          rows |-> normalize_records(pairs, snapshot_ts)]

PureInit ==
    /\ InitStore
    /\ pc = "pure"
    /\ interval = DEFAULT_INTERVAL
    /\ arg \in NormalizeInputs \cup GetNestedInputs \cup FetchInputs
    /\ out = [fn |-> ""]
    /\ InitWriters
    /\ InitSide

\* the function returns: only out and pc change
Returns(result) ==
    /\ pc' = "done"
    /\ out' = result
    /\ UNCHANGED <<files, dirExists, now, op, path, rows, ret, raised, exc, dataErr,
                   printed, files0, dir0, arrived, at, appended, interval>>
    /\ UNCHANGED <<arg, wpc, wexists, wdeduped, sfiles, scount>>

NormalizeCall ==
    /\ pc = "pure"
    /\ arg.fn = "normalize_records"
    /\ Returns(NormalizeOutcome(arg.pairs, arg.snapshot_ts))

GetNestedCall ==
    /\ pc = "pure"
    /\ arg.fn = "_get_nested"
    /\ Returns([fn |-> "_get_nested", ret |-> Walk(arg.d, split(arg.path), arg.default)])

\* one of the two fetch functions over the exchanges of arg
FetchCall ==
    /\ pc = "pure"
    /\ arg.fn = "fetch"
    /\ Returns([fn |-> "fetch",
                fetched |-> IF arg.pair_ids THEN fetch_pairs_by_ids(arg.responses)
                            ELSE fetch_pairs_by_search_queries(arg.responses)])

\* do_snapshot over the exchanges of arg
SnapshotCall ==
    /\ pc = "pure"
    /\ arg.fn = "fetch"
    /\ Ran("do_snapshot", arg.responses,
           do_snapshot(files, dirExists, now, arg.pair_ids, arg.responses))
    /\ pc' = "done"
    /\ UNCHANGED <<now, interval>>

PureNext == NormalizeCall \/ GetNestedCall \/ FetchCall \/ SnapshotCall

PureSpec == PureInit /\ [][PureNext]_vars

\* ------------------------------------------------------------ snapshots only
SnapNext == Tick \/ DoSnapshot

SnapSpec == Init /\ [][SnapNext]_vars

\* ------------------------------------------------------------ two writers
RaceInit ==
    /\ InitStore
    /\ pc = "race"
    /\ interval = DEFAULT_INTERVAL
    /\ InitPure
    /\ InitWriters
    /\ InitSide

\* writer w runs write_rows up to "if not deduped": it returns 0 there, or
\* stands before open(csv_path, "a") with its file_exists and deduped
WriterRead(w) ==
    /\ pc = "race"
    /\ wpc[w] \in {"idle", "returned"}
    /\ \E rs \in SeqsUpTo(RowPool(now), Budget) :
        LET csv_path == _daily_csv_path(now)
            file_exists == files[csv_path].exists
            existing == read_existing_keys(files, csv_path)
            deduped == DedupLoop(rs, existing, <<>>)
        IN  /\ wpc' = [wpc EXCEPT ![w] = IF rs = <<>> \/ deduped = <<>>
                                         THEN "returned" ELSE "append"]
            /\ wexists' = [wexists EXCEPT ![w] = file_exists]
            /\ wdeduped' = [wdeduped EXCEPT ![w] = IF rs = <<>> THEN <<>> ELSE deduped]
            /\ arrived' = [arrived EXCEPT ![csv_path] = @ \o rs]
    /\ UNCHANGED <<files, dirExists, now, op, path, rows, ret, raised, exc, dataErr,
                   printed, files0, dir0, at, appended, pc, interval>>
    /\ UNCHANGED <<arg, out, sfiles, scount>>

\* writer w opens the file for append (FileNotFoundError without the
\* directory), writes the header if its file_exists is false, then its rows
WriterAppend(w) ==
    /\ pc = "race"
    /\ wpc[w] = "append"
    /\ LET csv_path == _daily_csv_path(now)
       IN  files' = IF ~dirExists THEN files
                    ELSE [files EXCEPT ![csv_path] =
                             [exists |-> TRUE,
                              lines |-> Appended(wexists[w], files[csv_path].lines,
                                                 wdeduped[w])]]
    /\ wpc' = [wpc EXCEPT ![w] = "returned"]
    /\ UNCHANGED <<dirExists, now, op, path, rows, ret, raised, exc, dataErr,
                   printed, files0, dir0, arrived, at, appended, pc, interval>>
    /\ UNCHANGED <<arg, out, wexists, wdeduped, sfiles, scount>>

RaceNext == \E w \in Writers : WriterRead(w) \/ WriterAppend(w)

RaceSpec == RaceInit /\ [][RaceNext]_vars

\* ------------------------------------------------------------ side by side
\* a pair whose symbol holds a line break
RecE == Dict([pairAddress |-> Str("P3"), baseToken |-> Dict([symbol |-> Str("FOO\nBAR")])])

SideInit ==
    /\ InitStore
    /\ pc = "side"
    /\ interval = DEFAULT_INTERVAL
    /\ InitPure
    /\ InitWriters
    /\ InitSide

\* the same batch goes to the starter's write_rows on files and, between
\* snapshot_once's two counts, to scripts/ write_rows on sfiles; both after
\* ensure_dir(outdir)
SideBySide ==
    /\ pc = "side"
    /\ \E m \in 0..now, raws \in SeqsUpTo({RecA, RecB, RecD, RecE}, Budget) :
        LET rs == normalize_records(raws, isoformat(m))
            csv_path == _daily_csv_path(now)
            w == write_rows(files, TRUE, csv_path, rs)
            c == counted_write(sfiles, csv_path, rs)
        IN  /\ files' = w.files
            /\ sfiles' = c.files
            /\ scount' = c.added
            /\ dirExists' = TRUE
            /\ op' = "side_by_side"
            /\ path' = csv_path
            /\ rows' = rs
            /\ ret' = w.ret
            /\ raised' = w.raised
            /\ exc' = ""
            /\ dataErr' = FALSE
            /\ printed' = <<>>
            /\ files0' = files
            /\ dir0' = dirExists
            /\ arrived' = [arrived EXCEPT ![csv_path] = @ \o rs]
            /\ at' = now
            /\ appended' = [appended EXCEPT ![csv_path] = @ \o w.deduped]
    /\ UNCHANGED <<now, pc, interval>>
    /\ UNCHANGED <<arg, out, wpc, wexists, wdeduped>>

SideNext == Tick \/ SideBySide

SideSpec == SideInit /\ [][SideNext]_vars

\* ------------------------------------------------------------ properties
IsPrefix(a, b) == Len(a) <= Len(b) /\ SubSeq(b, 1, Len(a)) = a

\* the lines of a file after its header
DataLines(f) == IF Len(f.lines) > 1 THEN SubSeq(f.lines, 2, Len(f.lines)) ELSE <<>>

\* the data lines the last operation added to the file it addressed
AddedLines ==
    SubSeq(DataLines(files[path]), Len(DataLines(files0[path])) + 1,
           Len(DataLines(files[path])))

\* the rows of q at the indices in S, in order
Pick(q, S) ==
    LET F[i \in 0..Len(q)] ==
            IF i = 0 THEN <<>>
            ELSE IF i \in S THEN Append(F[i - 1], q[i]) ELSE F[i - 1]
    IN  F[Len(q)]

\* index i holds the first row of q with its key
IsFirstOccurrence(q, i) == \A j \in 1..(i - 1) : row_key(q[j]) # row_key(q[i])

FirstOccurrences(q) == Pick(q, {i \in 1..Len(q) : IsFirstOccurrence(q, i)})

CsvLines(q) == [i \in 1..Len(q) |-> csv_line(q[i])]

UniformTs(q) == \A i \in 1..Len(q) : q[i].snapshot_ts = q[1].snapshot_ts

\* C1 (key uniqueness): no two data rows of a partition file have the same
\* (pairAddress, snapshot_ts) key, whatever rows were handed to write_rows,
\* rows whose pairAddress is None included.
KeyUniqueness ==
    \A p \in Paths :
        \A i, j \in 2..Len(files[p].lines) :
            i # j => line_key(files[p].lines, i) # line_key(files[p].lines, j)

\* C2 (idempotent append): when write_rows has been handed the same batch of
\* rows normalized with one timestamp twice, the partition absent before the
\* first call, the second call returns 0 and leaves the file as it was.
IdempotentAppend ==
    (/\ op = "write_rows"
     /\ ~raised
     /\ rows # <<>>
     /\ UniformTs(rows)
     /\ arrived[path] = rows \o rows)
    => (ret = 0 /\ files = files0)

\* C3 (cross-batch dedup in arrival order): the data rows of a partition
\* file are the first occurrences of each key over the concatenation of all
\* the batches handed to write_rows for it, in arrival order.
ArrivalOrderDedup ==
    \A p \in Paths : DataLines(files[p]) = CsvLines(FirstOccurrences(arrived[p]))

\* C4 (within-batch dedup): the rows one write_rows call appends are rows of
\* its batch, each the first of the batch with its key, in the batch's order.
WithinBatchDedup ==
    (op = "write_rows" /\ ~raised)
    => \E S \in SUBSET (1..Len(rows)) :
          /\ \A i \in S : IsFirstOccurrence(rows, i)
          /\ AddedLines = CsvLines(Pick(rows, S))

\* a batch of two rows with one key and different field values, of which
\* the first was appended
WithinBatchDedupWitness ==
    /\ op = "write_rows"
    /\ Len(rows) = 2
    /\ row_key(rows[1]) = row_key(rows[2])
    /\ csv_line(rows[1]) # csv_line(rows[2])
    /\ ret = 1
    /\ AddedLines = <<csv_line(rows[1])>>

\* C5 (header once): a partition file that exists holds exactly one header
\* line, and it is the first line.
HeaderOnce ==
    \A p \in Paths :
        files[p].exists =>
            /\ Len(files[p].lines) >= 1
            /\ files[p].lines[1] = header_line
            /\ \A i \in 2..Len(files[p].lines) : files[p].lines[i] # header_line

\* a write_rows call has appended to a file that existed
HeaderOnceWitness ==
    /\ op = "write_rows"
    /\ files0[path].exists
    /\ Len(files[path].lines) > Len(files0[path].lines)

\* C6 (append-only growth): what a partition file held before an operation
\* is a prefix of what it holds after it, and the file still exists.
AppendOnly ==
    \A p \in Paths :
        /\ files0[p].exists => files[p].exists
        /\ IsPrefix(files0[p].lines, files[p].lines)

\* do_snapshot has appended to a file that held data
AppendOnlyWitness ==
    /\ op = "do_snapshot"
    /\ Len(files0[path].lines) > 1
    /\ Len(files[path].lines) > Len(files0[path].lines)

FetchFailureAbsorbed ==
    (op \in {"do_snapshot", "snapshot_once"} /\ exc # "")
    => /\ ret = 0
       /\ ~raised
       /\ files = files0
       /\ dirExists = dir0

\* a transport error with no output directory yet: none was created
FetchFailureWitness ==
    /\ op = "do_snapshot"
    /\ exc = "RequestException"
    /\ ret = 0
    /\ ~dirExists

\* C9 (data error is zero records): a snapshot whose responses parse but
\* lack the top-level structure completes without raising and writes 0 rows.
DataErrorZeroRecords ==
    (op \in {"do_snapshot", "snapshot_once"} /\ dataErr)
    => /\ ~raised
       /\ ret = 0
       /\ files = files0

\* C10 (loop liveness): in looping mode the loop is left only by the user's
\* interrupt, and after a snapshot whose fetch failed the loop reaches the
\* next call of do_snapshot unless the user interrupts.
LoopLiveness ==
    /\ [][(pc \in {"call", "sleep"} /\ pc' \notin {"call", "sleep"}) => pc' = "stopped"]_vars
    /\ (pc = "sleep" /\ exc # "") ~> (pc = "call" \/ pc = "stopped")

\* the loop is at the call of do_snapshot again after a failed fetch
LoopLivenessWitness ==
    /\ interval > 0
    /\ pc = "call"
    /\ op = "do_snapshot"
    /\ exc # ""

\* C11 (one status line): every run of do_snapshot, its fetch failed or not,
\* prints exactly one line, and that line carries the snapshot timestamp, the
\* number of rows written and the partition path.
StatusLinePerInvocation ==
    op = "do_snapshot"
    => /\ Len(printed) = 1
       /\ printed[1].ts = isoformat(at)
       /\ printed[1].wrote = ret
       /\ printed[1].path = _daily_csv_path(at)

\* a value no record holds
Missing == [tag |-> "missing", val |-> ""]

\* v is a mapping with key k
HasKey(v, k) == v.tag = "dict" /\ k \in DOMAIN v.val

\* the value of d under the segments parts (at most three), Missing when
\* some value on the way is no mapping or lacks the next segment
ValueAt(d, parts) ==
    IF ~HasKey(d, parts[1]) THEN Missing
    ELSE IF Len(parts) = 1 THEN d.val[parts[1]]
    ELSE IF ~HasKey(d.val[parts[1]], parts[2]) THEN Missing
    ELSE IF Len(parts) = 2 THEN d.val[parts[1]].val[parts[2]]
    ELSE IF ~HasKey(d.val[parts[1]].val[parts[2]], parts[3]) THEN Missing
    ELSE d.val[parts[1]].val[parts[2]].val[parts[3]]

\* where in the raw record each field of a row comes from
SourcePath ==
    [ pairAddress |-> <<"pairAddress">>, chainId |-> <<"chainId">>, dexId |-> <<"dexId">>,
      url |-> <<"url">>,
      baseToken_symbol |-> <<"baseToken", "symbol">>,
      baseToken_address |-> <<"baseToken", "address">>,
      quoteToken_symbol |-> <<"quoteToken", "symbol">>,
      quoteToken_address |-> <<"quoteToken", "address">>,
      priceNative |-> <<"priceNative">>, priceUsd |-> <<"priceUsd">>,
      priceChange_h1 |-> <<"priceChange", "h1">>,
      priceChange_h6 |-> <<"priceChange", "h6">>,
      priceChange_h24 |-> <<"priceChange", "h24">>,
      txns_m5_buys |-> <<"txns", "m5", "buys">>, txns_m5_sells |-> <<"txns", "m5", "sells">>,
      txns_h1_buys |-> <<"txns", "h1", "buys">>, txns_h1_sells |-> <<"txns", "h1", "sells">>,
      txns_h6_buys |-> <<"txns", "h6", "buys">>, txns_h6_sells |-> <<"txns", "h6", "sells">>,
      txns_h24_buys |-> <<"txns", "h24", "buys">>,
      txns_h24_sells |-> <<"txns", "h24", "sells">>,
      volume_m5 |-> <<"volume", "m5">>, volume_h1 |-> <<"volume", "h1">>,
      volume_h6 |-> <<"volume", "h6">>, volume_h24 |-> <<"volume", "h24">>,
      liquidity_base |-> <<"liquidity", "base">>,
      liquidity_quote |-> <<"liquidity", "quote">>,
      liquidity_usd |-> <<"liquidity", "usd">>,
      pairCreatedAt |-> <<"pairCreatedAt">> ]

\* C12 (fixed-width rows): for raw records that are mappings,
\* normalize_records raises nothing and returns one row per record, in input
\* order, each with exactly the 30 canonical field names; a field whose
\* source is absent is None, any other holds the source's value, and
\* snapshot_ts is the timestamp passed in.
FixedWidthRows ==
    (/\ pc = "done"
     /\ out.fn = "normalize_records"
     /\ \A i \in 1..Len(arg.pairs) : arg.pairs[i].tag = "dict")
    => /\ ~out.raised
       /\ Len(out.rows) = Len(arg.pairs)
       /\ \A i \in 1..Len(arg.pairs) :
            /\ DOMAIN out.rows[i] = {fieldnames[j] : j \in 1..Len(fieldnames)}
            /\ Cardinality(DOMAIN out.rows[i]) = 30
            /\ out.rows[i].snapshot_ts = Str(arg.snapshot_ts)
            /\ \A f \in DOMAIN SourcePath :
                 LET v == ValueAt(arg.pairs[i], SourcePath[f])
                 IN  out.rows[i][f] = IF v.tag = "missing" THEN None ELSE v

\* the scenario record, then a record with neither baseToken nor liquidity:
\* two full-width rows in that order, the second with None in those fields
FixedWidthRowsWitness ==
    /\ pc = "done"
    /\ out.fn = "normalize_records"
    /\ arg.pairs = <<RecA, RecD>>
    /\ ~out.raised
    /\ Len(out.rows) = 2
    /\ out.rows[1].baseToken_symbol = Str("FOO")
    /\ out.rows[2].baseToken_symbol = None
    /\ out.rows[2].liquidity_usd = None

\* C13 (field extraction): _get_nested returns the default when, walking the
\* path, a value is no mapping or lacks the next segment, and otherwise the
\* value at the end of the path, unchanged.
FieldExtraction ==
    (pc = "done" /\ out.fn = "_get_nested")
    => LET v == ValueAt(arg.d, split(arg.path))
       IN  out.ret = IF v.tag = "missing" THEN arg.default ELSE v

\* a walk that meets a string before the path ends returns the default given
FieldExtractionWitness ==
    /\ pc = "done"
    /\ out.fn = "_get_nested"
    /\ arg.path = "baseToken.symbol.name"
    /\ HasKey(arg.d, "baseToken")
    /\ HasKey(arg.d.val["baseToken"], "symbol")
    /\ arg.default = Str("n/a")
    /\ out.ret = Str("n/a")

\* C14 (key round trip): read_existing_keys of a header-only file is empty,
\* and of a partition file it is exactly the set of the dedup keys, as the
\* in-memory rows hold them, of the rows write_rows appended to the file
\* (empty for an absent file).
KeyRoundTrip ==
    \A p \in Paths :
        /\ read_existing_keys([q \in Paths |-> [exists |-> TRUE, lines |-> <<header_line>>]], p)
               = {}
        /\ read_existing_keys(files, p)
               = {row_key(appended[p][i]) : i \in 1..Len(appended[p])}

Arrival(q) ==
    LET F[i \in 0..Len(q)] ==
            IF i = 0 THEN <<>> ELSE F[i - 1] \o PairsOf(q[i].body).items
    IN  F[Len(q)]

\* record p has a pairAddress that is neither missing nor empty
HasAddress(p) == Get(p, "pairAddress").tag = "str" /\ Get(p, "pairAddress").val # ""

\* C18 (fetch-side merge): the list a fetch returns holds no two records
\* with the same pairAddress and none whose pairAddress is missing or empty,
\* and it is the first occurrence of each pairAddress over the queries'
\* results, in arrival order; the batch do_snapshot hands to write_rows has
\* pairwise distinct dedup keys.
FetchSideMerge ==
    /\ (pc = "done" /\ out.fn = "fetch" /\ out.fetched.exc = "")
       => LET got == out.fetched.pairs
              all == Arrival(arg.responses)
          IN  /\ \A i \in 1..Len(got) : HasAddress(got[i])
              /\ \A i, j \in 1..Len(got) :
                    i # j => Get(got[i], "pairAddress") # Get(got[j], "pairAddress")
              /\ got = Pick(all, {i \in 1..Len(all) :
                                    /\ HasAddress(all[i])
                                    /\ \A j \in 1..(i - 1) :
                                          Get(all[j], "pairAddress") # Get(all[i], "pairAddress")})
    /\ (op = "do_snapshot" /\ exc = "")
       => \A i, j \in 1..Len(rows) : i # j => row_key(rows[i]) # row_key(rows[j])

\* two queries: the second repeats the first's pair and brings an empty and
\* a null address; the first occurrence of each address is what is returned
FetchSideMergeWitness ==
    /\ pc = "done"
    /\ out.fn = "fetch"
    /\ arg.responses = <<Ok(BodyBD), Ok(BodyMixed)>>
    /\ out.fetched.exc = ""
    /\ out.fetched.pairs = <<RecB, RecC>>

\* the key of data line i of file p repeats at another data line
Duplicated(p, i) ==
    \E j \in 2..Len(files[p].lines) :
        j # i /\ line_key(files[p].lines, j) = line_key(files[p].lines, i)

\* C16 (non-atomic read-then-append): as long as a single writer has run
\* write_rows, no partition file holds two data rows with the same
\* (pairAddress, snapshot_ts) key (with two writers such a state is
\* reachable, see RaceDuplicate).
SingleWriterNoDuplicate ==
    wpc[2] = "idle"
    => \A p \in Paths : \A i \in 2..Len(files[p].lines) : ~Duplicated(p, i)

\* both writers have appended the same row: each read the keys before the
\* other appended
RaceDuplicate ==
    /\ wpc[1] = "returned"
    /\ wpc[2] = "returned"
    /\ wdeduped[1] = wdeduped[2]
    /\ \E p \in Paths : \E i \in 2..Len(files[p].lines) :
          /\ files[p].lines[i] # header_line
          /\ Duplicated(p, i)

\* C17 (partition routing): the rows a do_snapshot run hands on carry the
\* timestamp of the instant it captured and only the file of that instant's
\* date changes; so every data row of the file of a date has a snapshot_ts
\* of that date (a file is identified by the date in its name).
PartitionRouting ==
    /\ (op = "do_snapshot" /\ exc = "")
       => /\ \A i \in 1..Len(rows) : rows[i].snapshot_ts = Str(isoformat(at))
          /\ \A p \in Paths : files[p] # files0[p] => p = _daily_csv_path(at)
          /\ printed[1].path = _daily_csv_path(at)
    /\ \A p \in Paths : \A i \in 2..Len(files[p].lines) : \A n, m \in Nows :
          (/\ reader_get(files[p].lines[1], files[p].lines[i], "snapshot_ts") = Str(isoformat(n))
           /\ p = _daily_csv_path(m))
          => strftime(n) = strftime(m)
    /\ \A p \in Paths : \A i \in 2..Len(files[p].lines) : \E n \in Nows :
          reader_get(files[p].lines[1], files[p].lines[i], "snapshot_ts") = Str(isoformat(n))

\* snapshots before and after midnight have each written to their own file
PartitionRoutingWitness ==
    /\ op = "do_snapshot"
    /\ ret >= 1
    /\ at = 1
    /\ \A p \in Paths : Len(DataLines(files[p])) >= 1

\* C19 (the two implementations agree): fed the same batches from the same
\* absent partition, scripts/ write_rows and the starter's write_rows leave
\* the same files after every step, and the count snapshot_once derives from
\* the file equals the count the starter's write_rows returns.
ImplementationsAgree ==
    /\ sfiles = files
    /\ op = "side_by_side" => scount = ret

====
